---------------------------- MODULE Spec2Model ----------------------------
(***************************************************************************)
(* A model of kico's corednsrunner package: the LogWaiter (waitForLogs),   *)
(* the harvesting stage (parseConnectionLogs, parseLogMsg), the service    *)
(* lookup (findToPodServiceFQDNs) and the ConnectionCorrelator             *)
(* (processConnectionLogs and its segment goroutines).                     *)
(*                                                                         *)
(* Go strings are TLA+ strings; Len, \o and SubSeq read and build them.    *)
(***************************************************************************)
EXTENDS Integers, Sequences, FiniteSets, TLC

VARIABLES
    \* ---- Runner fields ----
    toPodLabels,          \* r.toPod.GetLabels()
    toPodServiceFQDNs,    \* r.toPodServiceFQDNs
    connectionLogs,       \* r.connectionLogs
    hostnamePodMapping,   \* r.hostnamePodMapping
    concurrency,          \* r.concurrency
    waitForLogsDuration,  \* r.waitForLogsDuration
    coreDNSPods,          \* r.coreDNSPods.Items (indices 1..N)
    \* ---- findToPodServiceFQDNs ----
    sList,                \* the services listed in the target namespace
    fpc,                  \* position in findToPodServiceFQDNs
    fIdx,                 \* index of the service the outer loop is at
    fKeys,                \* selector keys the inner range has not yet visited
    toPodServices,        \* the local slice toPodServices
    \* ---- Initialize / waitForLogs / parseConnectionLogs ----
    phase,                \* where Initialize is, or how the process ended
    initErr,              \* the error Initialize returned
    clock,                \* time.Now()
    wpc,                  \* per source goroutine: its position
    tStart,               \* per source goroutine: tStart
    outcome,              \* per source goroutine: the exit it took
    e,                    \* the shared error slot of waitForLogs
    waitReturned,         \* waitForLogs has returned
    hIdx,                 \* parseConnectionLogs: index of the pod being read
    hpc,                  \* parseConnectionLogs: position
    hLines,               \* parseConnectionLogs: lines read from the pod
    connLogList,          \* parseConnectionLogs: the local connLogList
    harvested,            \* every line parseConnectionLogs has read so far
    \* ---- processConnectionLogs ----
    cpc,                  \* the main goroutine's position
    spawnI,               \* the spawn loop's i
    segments,             \* the local segments
    segs,                 \* per channel/unit: the slice bounds [from, to)
    upc,                  \* per unit: its position
    upos,                 \* per unit: index of the event it is at
    ulocal,               \* per unit: processConnectionLog's locals
    umsg,                 \* per unit: the message it sends on its channel
    mutex,                \* holder of mu (0: free)
    recvI,                \* how many channels main has received from
    discoveryLog,         \* the "pod: .., ns: .. via svc: .." records
    \* ---- relevantLogMsg / parseLogMsg called on one line ----
    logLine,              \* the line (rawText)
    fields,               \* the fields the line was written from
    called,               \* which of the two functions have returned
    relevant,             \* the result of relevantLogMsg(rawText)
    parsed,               \* the result of parseLogMsg(rawText)
    \* ---- suggestNetPol ----
    podLabels,            \* the cluster: labels of each pod, by <<ns, name>>
    spc,                  \* position in suggestNetPol
    sTodo,                \* keys of hostnamePodMapping the outer range has not visited
    sAt,                  \* the key and the index the inner range is at
    netPolPeers,          \* the local netPolPeers (their MatchLabels)
    fetchLog,             \* per visited entry: the mapping and how its Get ended
    netPol                \* the NetworkPolicy n

runnerVars == <<toPodLabels, toPodServiceFQDNs, connectionLogs, hostnamePodMapping, concurrency,
                waitForLogsDuration, coreDNSPods>>
findVars == <<sList, fpc, fIdx, fKeys, toPodServices>>
waitVars == <<clock, wpc, tStart, outcome, e, waitReturned>>
harvestVars == <<hIdx, hpc, hLines, connLogList, harvested>>
initVars == <<phase, initErr>>
corrVars == <<cpc, spawnI, segments, segs, upc, upos, ulocal, umsg, mutex,
              recvI, discoveryLog>>
parseVars == <<logLine, fields, called, relevant, parsed>>
polVars == <<podLabels, spc, sTodo, sAt, netPolPeers, fetchLog, netPol>>
vars == <<runnerVars, findVars, waitVars, harvestVars, initVars, corrVars,
          parseVars, polVars>>

----------------------------------------------------------------------------
(* Bounds of the model *)

MaxEvents == 3
MaxConc == 2
MaxSources == 2
MaxClock == 3
MaxHarvestLines == 2
MaxServices == 2
MaxCallers == 3

----------------------------------------------------------------------------
(* Go strings *)

Min(S) == CHOOSE x \in S : \A y \in S : x <= y
Max(S) == CHOOSE x \in S : \A y \in S : x >= y

\* s[i:i+1] with Go's 0-based index
AtMutant(s, i) == ""
At(s, i) == SubSeq(s, i + 1, i + 1)

\* s[from:to] with Go's 0-based, half-open bounds
Slice(s, from, to) == SubSeq(s, from + 1, to)

\* strings.HasPrefix
HasPrefix(s, p) == Len(s) >= Len(p) /\ Slice(s, 0, Len(p)) = p

\* strings.Index: the 0-based index of the first occurrence, or -1
Index(s, sub) ==
    LET at == {i \in 0..(Len(s) - Len(sub)) : Slice(s, i, i + Len(sub)) = sub}
    IN  IF at = {} THEN 0 - 1 ELSE Min(at)

\* strings.Contains
Contains(s, sub) == Index(s, sub) >= 0

\* strings.Split(s, sep) for a one-character separator
RECURSIVE Split(_, _)
Split(s, sep) ==
    LET i == Index(s, sep)
    IN  IF i < 0 THEN <<s>>
        ELSE <<Slice(s, 0, i)>> \o Split(Slice(s, i + 1, Len(s)), sep)

fqdnSuffix == ".svc.cluster.local."

----------------------------------------------------------------------------
(* LogGrammar *)

relevantLogMsgMutant(line) ==
    /\ HasPrefix(line, "[INFO]")
    /\ Contains(line, fqdnSuffix)
    /\ Contains(line, ":")
relevantLogMsg(rawText) ==
    /\ HasPrefix(rawText, "[INFO]")
    /\ Contains(rawText, fqdnSuffix)
    /\ Contains(rawText, "NOERROR")
    /\ Contains(rawText, ":")

\* the nil *ConnectionLog
NilLog == [FromIP |-> "", FromPort |-> "", ToHostname |-> "", nil |-> TRUE]
ConnectionLog(ip, port, fqdn) ==
    [FromIP |-> ip, FromPort |-> port, ToHostname |-> fqdn, nil |-> FALSE]

\* (c, err, success); err is "nil" or the error's message
parseLogMsg(rawText) ==
    IF ~relevantLogMsg(rawText)
    THEN [c |-> NilLog, err |-> "nil", success |-> FALSE]
    ELSE
    LET si == Index(rawText, fqdnSuffix)
        \* for i := si; i >= 0; i-- { if rawText[i:i+1] == " " ... break }
        sp == {i \in 0..si : At(rawText, i) = " "}
        fqdn0 == IF sp = {} THEN "" ELSE Slice(rawText, Max(sp) + 1, si)
        fqdn == fqdn0 \o fqdnSuffix
        eiText == Split(rawText, " ")[2]
        \* for i := len(eiText) - 1; i >= 0; i-- { if eiText[i:i+1] == ":" ... break }
        co == {i \in 0..(Len(eiText) - 1) : At(eiText, i) = ":"}
        ip == IF co = {} THEN "" ELSE Slice(eiText, 0, Max(co))
        port == IF co = {} THEN "" ELSE Slice(eiText, Max(co) + 1, Len(eiText))
    IN  IF fqdn0 = "" THEN [c |-> NilLog, err |-> "FQDN not found", success |-> FALSE]
        ELSE IF ip = "" THEN [c |-> NilLog, err |-> "pod ip not found", success |-> FALSE]
        ELSE IF port = "" THEN [c |-> NilLog, err |-> "pod port not found", success |-> FALSE]
        ELSE [c |-> ConnectionLog(ip, port, fqdn), err |-> "nil", success |-> TRUE]

----------------------------------------------------------------------------
(* TopologyIndex: names, addresses and the scan of processConnectionLog *)

RECURSIVE Concat(_)
Concat(ss) == IF ss = <<>> THEN <<>> ELSE Head(ss) \o Concat(Tail(ss))

NilRef == [nil |-> TRUE, Kind |-> "", Name |-> "", Namespace |-> ""]
Ref(kind, name, ns) == [nil |-> FALSE, Kind |-> kind, Name |-> name, Namespace |-> ns]
Addr(ip, ref) == [IP |-> ip, TargetRef |-> ref]

\* The addresses in the order the four nested loops visit them: namespace
\* list, then Endpoints object, then subset, then address.
ScanOrder(nss, eps) ==
    Concat([n \in DOMAIN nss |->
        Concat([k \in DOMAIN eps[nss[n]] |-> Concat(eps[nss[n]][k])])])

\* The nested loops of processConnectionLog. The scan stops at the first
\* address with the event's IP whose TargetRef is nil (the read of
\* ea.TargetRef.Kind panics) or whose kind is "Pod" (found).
ResolveSource(ip, nss, eps) ==
    LET flat == ScanOrder(nss, eps)
        stop == {i \in DOMAIN flat :
                    /\ flat[i].IP = ip
                    /\ (flat[i].TargetRef.nil \/ flat[i].TargetRef.Kind = "Pod")}
    IN  IF stop = {}
        THEN [panic |-> FALSE, found |-> FALSE, fromPodName |-> "", fromNs |-> ""]
        ELSE LET ea == flat[Min(stop)]
             IN  IF ea.TargetRef.nil
                 THEN [panic |-> TRUE, found |-> FALSE, fromPodName |-> "", fromNs |-> ""]
                 ELSE [panic |-> FALSE, found |-> TRUE,
                       fromPodName |-> ea.TargetRef.Name,
                       fromNs |-> ea.TargetRef.Namespace]

\* c.ToHostname == f for some f of r.toPodServiceFQDNs
MatchesFQDN(c, fqdns) == \E i \in DOMAIN fqdns : c.ToHostname = fqdns[i]

Mapping(podname, namespace) == [podname |-> podname, namespace |-> namespace]

\* r.hostnamePodMapping[h], nil for a missing key
MappingAt(m, h) == IF h \in DOMAIN m THEN m[h] ELSE <<>>

\* if r.hostnamePodMapping[h] == nil { r.hostnamePodMapping[h] = []*Mapping{} }
EnsureKey(m, h) == IF h \in DOMAIN m THEN m ELSE m @@ (h :> <<>>)

\* the presence loop: p.podname == fromPodName for some p
PresentMutant(list, fromPodName) == FALSE
Present(list, fromPodName) == \E i \in DOMAIN list : list[i].podname = fromPodName

\* if !present { append }
AppendMapping(m, h, present, fromPodName, fromNs) ==
    IF present THEN m
    ELSE [m EXCEPT ![h] = Append(@, Mapping(fromPodName, fromNs))]

DiscoveryRecord(fromPodName, fromNs, svc) ==
    [pod |-> fromPodName, ns |-> fromNs, svc |-> svc]

\* if !present { log.Infof("pod: %s, ns: %s via svc: %s\n", ...) }
EmitRecordMutant(log, present, fromPodName, fromNs, svc) ==
    Append(log, DiscoveryRecord(fromPodName, fromNs, svc))
EmitRecord(log, present, fromPodName, fromNs, svc) ==
    IF present THEN log ELSE Append(log, DiscoveryRecord(fromPodName, fromNs, svc))

\* processConnectionLog as one function of the mapping and the records:
\* what a unit does to them between m.Lock() and m.Unlock().
ProcessOne(st, c, fqdns, nss, eps) ==
    IF st.panic \/ ~MatchesFQDN(c, fqdns) THEN st
    ELSE LET res == ResolveSource(c.FromIP, nss, eps)
             m1 == EnsureKey(st.m, c.ToHostname)
             present == Present(m1[c.ToHostname], res.fromPodName)
         IN  IF res.panic THEN [st EXCEPT !.panic = TRUE]
             ELSE [m |-> AppendMapping(m1, c.ToHostname, present, res.fromPodName, res.fromNs),
                   log |-> EmitRecord(st.log, present, res.fromPodName, res.fromNs, c.ToHostname),
                   panic |-> FALSE]

\* the events of a list processed one after the other, in list order
RECURSIVE FoldLogs(_, _, _, _, _)
FoldLogs(st, logs, fqdns, nss, eps) ==
    IF logs = <<>> THEN st
    ELSE FoldLogs(ProcessOne(st, Head(logs), fqdns, nss, eps), Tail(logs), fqdns, nss, eps)

\* Go's integer division and remainder (truncated towards zero), a >= 0
GoDiv(a, b) == IF b > 0 THEN a \div b ELSE 0 - (a \div (0 - b))
GoModMutant(a, b) == 0
GoMod(a, b) == a - b * GoDiv(a, b)

\* fmt.Sprintf("%s.%s.svc.cluster.local.", s.Name, s.Namespace)
ServiceFQDN(name, ns) == name \o "." \o ns \o ".svc.cluster.local."

----------------------------------------------------------------------------
(* The inputs of the correlation runs *)

IPa == "10.1"
IPb == "10.2"
IPn == "10.4"
IPx == "10.9"
Port == "53"
HostDb == ServiceFQDN("db", "shop")
HostApi == ServiceFQDN("api", "shop")
HostWeb == ServiceFQDN("web", "shop")

\* The topology snapshot Initialize reads once: r.allNamespaces (the names)
\* and r.allEndpoints: per namespace the Endpoints objects, each a sequence
\* of subsets, each a sequence of addresses. 10.1 is first the address of a
\* node, then of pod a in ns1, then of pod b in ns2; 10.2 is another pod
\* named a, in ns2; 10.4 has no TargetRef; 10.9 is in no subset.
allNamespaces == <<"ns1", "ns2">>
allEndpoints ==
    [n \in {"ns1", "ns2"} |->
        IF n = "ns1"
        THEN << << <<Addr(IPa, Ref("Node", "n1", ""))>>,
                   <<Addr(IPa, Ref("Pod", "a", "ns1"))>> >> >>
        ELSE << << <<Addr(IPb, Ref("Pod", "a", "ns2")), Addr(IPa, Ref("Pod", "b", "ns2"))>> >>,
                << <<Addr(IPn, NilRef), Addr(IPn, Ref("Pod", "d", "ns2"))>> >> >>]

\* the FQDNs of the target pod's services; web.shop is another pod's
TargetFQDNs == <<HostDb, HostApi>>

EventPool ==
    { ConnectionLog(IPa, Port, HostDb),
      ConnectionLog(IPb, Port, HostDb),
      ConnectionLog(IPx, Port, HostDb),
      ConnectionLog(IPn, Port, HostDb),
      ConnectionLog(IPa, Port, HostApi),
      ConnectionLog(IPa, Port, HostWeb) }

SeqsUpTo(S, n) == UNION {[1..k -> S] : k \in 0..n}

ConcValues == (0 - 1)..MaxConc


----------------------------------------------------------------------------
(* processConnectionLogs: the main goroutine and the segment units *)

Units == DOMAIN segs
NoLocals == [found |-> FALSE, fromPodName |-> "", fromNs |-> "", present |-> FALSE]
EventAt(u) == connectionLogs[upos[u] + 1]

\* go r.processConnectionLogsSegment(r.connectionLogs[from:to], mu, c)
Spawn(from, to) ==
    /\ segs' = Append(segs, [from |-> from, to |-> to])
    /\ upc' = Append(upc, "loop")
    /\ upos' = Append(upos, from)
    /\ ulocal' = Append(ulocal, NoLocals)
    /\ umsg' = Append(umsg, "")

\* l := len(r.connectionLogs); segments := l / r.concurrency
\* (an integer division by zero panics)
MainEntry ==
    /\ cpc = "entry"
    /\ IF concurrency = 0
       THEN cpc' = "crashed" /\ UNCHANGED <<segments, spawnI>>
       ELSE /\ segments' = GoDiv(Len(connectionLogs), concurrency)
            /\ spawnI' = 0
            /\ cpc' = "spawn"
    /\ UNCHANGED <<segs, upc, upos, ulocal, umsg, mutex, recvI, discoveryLog>>
    /\ UNCHANGED <<runnerVars, findVars, parseVars, polVars, waitVars, harvestVars, initVars>>

\* one iteration of the loop over the full segments
MainSpawn ==
    /\ cpc = "spawn"
    /\ spawnI < segments
    /\ Spawn(spawnI * concurrency, (spawnI + 1) * concurrency)
    /\ spawnI' = spawnI + 1
    /\ UNCHANGED <<cpc, segments, mutex, recvI, discoveryLog>>
    /\ UNCHANGED <<runnerVars, findVars, parseVars, polVars, waitVars, harvestVars, initVars>>

\* if m := l % r.concurrency; m != 0 { ... }
MainRemainder ==
    /\ cpc = "spawn"
    /\ spawnI >= segments
    /\ LET l == Len(connectionLogs)
           m == GoMod(l, concurrency)
       IN  IF m # 0 THEN Spawn(l - m, l)
           ELSE UNCHANGED <<segs, upc, upos, ulocal, umsg>>
    /\ cpc' = "recv"
    /\ recvI' = 0
    /\ UNCHANGED <<segments, spawnI, mutex, discoveryLog>>
    /\ UNCHANGED <<runnerVars, findVars, parseVars, polVars, waitVars, harvestVars, initVars>>

\* <-ch for the next channel of chans: a rendezvous with that unit's send
MainRecv ==
    /\ cpc = "recv"
    /\ recvI < Len(segs)
    /\ upc[recvI + 1] = "send"
    /\ upc' = [upc EXCEPT ![recvI + 1] = "exited"]
    /\ recvI' = recvI + 1
    /\ UNCHANGED <<cpc, segments, spawnI, segs, upos, ulocal, umsg, mutex, discoveryLog>>
    /\ UNCHANGED <<runnerVars, findVars, parseVars, polVars, waitVars, harvestVars, initVars>>

\* return nil
MainReturn ==
    /\ cpc = "recv"
    /\ recvI = Len(segs)
    /\ cpc' = "returned"
    /\ UNCHANGED <<segments, spawnI, segs, upc, upos, ulocal, umsg, mutex, recvI, discoveryLog>>
    /\ UNCHANGED <<runnerVars, findVars, parseVars, polVars, waitVars, harvestVars, initVars>>

\* m.Lock() acquires the mutex only when it is free
LockFreeMutant(holder) == TRUE
LockFree(holder) == holder = 0

\* top of the range loop with an event left: m.Lock()
UnitLock(u) ==
    /\ cpc # "crashed"
    /\ upc[u] = "loop"
    /\ upos[u] < segs[u].to
    /\ LockFree(mutex)
    /\ mutex' = u
    /\ upc' = [upc EXCEPT ![u] = "resolve"]
    /\ UNCHANGED <<cpc, segments, spawnI, segs, upos, ulocal, umsg, recvI, discoveryLog>>
    /\ UNCHANGED <<runnerVars, findVars, parseVars, polVars, waitVars, harvestVars, initVars>>

\* the range loop is over: ch <- "done" is pending
UnitFinish(u) ==
    /\ cpc # "crashed"
    /\ upc[u] = "loop"
    /\ upos[u] >= segs[u].to
    /\ upc' = [upc EXCEPT ![u] = "send"]
    /\ umsg' = [umsg EXCEPT ![u] = "done"]
    /\ UNCHANGED <<cpc, segments, spawnI, segs, upos, ulocal, mutex, recvI, discoveryLog>>
    /\ UNCHANGED <<runnerVars, findVars, parseVars, polVars, waitVars, harvestVars, initVars>>

\* processConnectionLog: the FQDN match and the scan of the endpoints
UnitResolve(u) ==
    /\ cpc # "crashed"
    /\ upc[u] = "resolve"
    /\ LET c == EventAt(u)
           res == ResolveSource(c.FromIP, allNamespaces, allEndpoints)
       IN  IF ~MatchesFQDN(c, toPodServiceFQDNs)
           THEN /\ upc' = [upc EXCEPT ![u] = "unlock"]
                /\ ulocal' = [ulocal EXCEPT ![u] = NoLocals]
                /\ UNCHANGED cpc
           ELSE IF res.panic
           THEN /\ cpc' = "crashed"
                /\ UNCHANGED <<upc, ulocal>>
           ELSE /\ upc' = [upc EXCEPT ![u] = "check"]
                /\ ulocal' = [ulocal EXCEPT ![u] =
                                [found |-> res.found, fromPodName |-> res.fromPodName,
                                 fromNs |-> res.fromNs, present |-> FALSE]]
                /\ UNCHANGED cpc
    /\ UNCHANGED <<segments, spawnI, segs, upos, umsg, mutex, recvI, discoveryLog>>
    /\ UNCHANGED <<runnerVars, findVars, parseVars, polVars, waitVars, harvestVars, initVars>>

\* processConnectionLog: the nil check of the map entry and the presence loop
UnitCheck(u) ==
    /\ cpc # "crashed"
    /\ upc[u] = "check"
    /\ LET h == EventAt(u).ToHostname
           m1 == EnsureKey(hostnamePodMapping, h)
       IN  /\ hostnamePodMapping' = m1
           /\ ulocal' = [ulocal EXCEPT ![u].present = Present(m1[h], ulocal[u].fromPodName)]
    /\ upc' = [upc EXCEPT ![u] = "append"]
    /\ UNCHANGED <<cpc, segments, spawnI, segs, upos, umsg, mutex, recvI, discoveryLog>>
    /\ UNCHANGED <<toPodLabels, toPodServiceFQDNs, connectionLogs, concurrency, waitForLogsDuration, coreDNSPods>>
    /\ UNCHANGED <<findVars, parseVars, polVars, waitVars, harvestVars, initVars>>

\* processConnectionLog: if !present { append; log.Infof }
UnitAppend(u) ==
    /\ cpc # "crashed"
    /\ upc[u] = "append"
    /\ LET h == EventAt(u).ToHostname
           loc == ulocal[u]
       IN  /\ hostnamePodMapping' =
                AppendMapping(EnsureKey(hostnamePodMapping, h), h, loc.present,
                              loc.fromPodName, loc.fromNs)
           /\ discoveryLog' =
                EmitRecord(discoveryLog, loc.present, loc.fromPodName, loc.fromNs, h)
    /\ upc' = [upc EXCEPT ![u] = "unlock"]
    /\ UNCHANGED <<cpc, segments, spawnI, segs, upos, ulocal, umsg, mutex, recvI>>
    /\ UNCHANGED <<toPodLabels, toPodServiceFQDNs, connectionLogs, concurrency, waitForLogsDuration, coreDNSPods>>
    /\ UNCHANGED <<findVars, parseVars, polVars, waitVars, harvestVars, initVars>>

\* the error processConnectionLog returns: every path returns nil
ProcessErr == "nil"

\* processConnectionLog returns (its locals are gone); m.Unlock();
\* if err != nil { ch <- "errored"; return err }
UnitUnlock(u) ==
    /\ cpc # "crashed"
    /\ upc[u] = "unlock"
    /\ mutex' = IF mutex = u THEN 0 ELSE mutex
    /\ ulocal' = [ulocal EXCEPT ![u] = NoLocals]
    /\ IF ProcessErr # "nil"
       THEN /\ upc' = [upc EXCEPT ![u] = "send"]
            /\ umsg' = [umsg EXCEPT ![u] = "errored"]
            /\ UNCHANGED upos
       ELSE /\ upc' = [upc EXCEPT ![u] = "loop"]
            /\ upos' = [upos EXCEPT ![u] = @ + 1]
            /\ UNCHANGED umsg
    /\ UNCHANGED <<cpc, segments, spawnI, segs, recvI, discoveryLog>>
    /\ UNCHANGED <<runnerVars, findVars, parseVars, polVars, waitVars, harvestVars, initVars>>

----------------------------------------------------------------------------
(* Go errors *)

\* a nil error
NoErr == [kind |-> "nil"]
\* fmt.Errorf(logNotFound, pod.Name, r.waitForLogsDuration)
TimeoutErr(pod) == [kind |-> "timeout", pod |-> pod]
\* the error of req.Stream
StreamErr(pod) == [kind |-> "stream", pod |-> pod]
\* the error of parseLogMsg
ParseErr(msg) == [kind |-> "parse", msg |-> msg]

----------------------------------------------------------------------------
(* Values of the variables a specification does not use *)

FindIdle ==
    /\ sList = <<>> /\ fpc = "idle" /\ fIdx = 0 /\ fKeys = {} /\ toPodServices = <<>>
WaitIdle ==
    /\ clock = 0 /\ wpc = <<>> /\ tStart = <<>> /\ outcome = <<>>
    /\ e = NoErr /\ waitReturned = FALSE
HarvestIdle ==
    /\ hIdx = 0 /\ hpc = "idle" /\ hLines = 0 /\ connLogList = <<>> /\ harvested = <<>>
CorrIdle ==
    /\ cpc = "idle" /\ spawnI = 0 /\ segments = 0 /\ segs = <<>> /\ upc = <<>>
    /\ upos = <<>> /\ ulocal = <<>> /\ umsg = <<>> /\ mutex = 0 /\ recvI = 0
    /\ discoveryLog = <<>>
ParseIdle ==
    /\ logLine = "" /\ fields = <<>> /\ called = {} /\ relevant = FALSE
    /\ parsed = [c |-> NilLog, err |-> "nil", success |-> FALSE]
PolIdle ==
    /\ podLabels = <<>> /\ spc = "idle" /\ sTodo = {} /\ sAt = <<>>
    /\ netPolPeers = <<>> /\ fetchLog = <<>> /\ netPol = <<>>

----------------------------------------------------------------------------
(* The correlation phase: Run() after Initialize returned the Runner *)

InitCorr ==
    /\ toPodLabels = <<>>
    /\ toPodServiceFQDNs = TargetFQDNs
    /\ connectionLogs \in SeqsUpTo(EventPool, MaxEvents)
    /\ hostnamePodMapping = <<>>
    /\ concurrency \in ConcValues
    /\ waitForLogsDuration = 0
    /\ coreDNSPods = {}
    /\ FindIdle /\ WaitIdle /\ HarvestIdle /\ ParseIdle /\ PolIdle
    /\ phase = "initialized" /\ initErr = NoErr
    /\ cpc = "entry" /\ spawnI = 0 /\ segments = 0 /\ segs = <<>> /\ upc = <<>>
    /\ upos = <<>> /\ ulocal = <<>> /\ umsg = <<>> /\ mutex = 0 /\ recvI = 0
    /\ discoveryLog = <<>>

NextCorr ==
    \/ MainEntry
    \/ MainSpawn
    \/ MainRemainder
    \/ MainRecv
    \/ MainReturn
    \/ \E u \in Units : UnitLock(u)
    \/ \E u \in Units : UnitFinish(u)
    \/ \E u \in Units : UnitResolve(u)
    \/ \E u \in Units : UnitCheck(u)
    \/ \E u \in Units : UnitAppend(u)
    \/ \E u \in Units : UnitUnlock(u)

SpecCorr == InitCorr /\ [][NextCorr]_vars

\* The Go scheduler runs every goroutine that can take a step: the main
\* goroutine's steps and the units' steps are weakly fair.
FairCorr ==
    /\ WF_vars(MainEntry)
    /\ WF_vars(MainSpawn)
    /\ WF_vars(MainRemainder)
    /\ WF_vars(MainRecv)
    /\ WF_vars(MainReturn)
    /\ WF_vars(\E u \in Units : UnitLock(u))
    /\ WF_vars(\E u \in Units : UnitFinish(u))
    /\ WF_vars(\E u \in Units : UnitResolve(u))
    /\ WF_vars(\E u \in Units : UnitCheck(u))
    /\ WF_vars(\E u \in Units : UnitAppend(u))
    /\ WF_vars(\E u \in Units : UnitUnlock(u))

LiveCorr == SpecCorr /\ FairCorr


----------------------------------------------------------------------------
(* Claims about the ConnectionCorrelator *)

Resolved(c) == ResolveSource(c.FromIP, allNamespaces, allEndpoints)
Targeted(c) == MatchesFQDN(c, toPodServiceFQDNs)
EntriesOf(m) ==
    UNION {{<<h, m[h][i].podname, m[h][i].namespace>> : i \in DOMAIN m[h]} : h \in DOMAIN m}

\* C1: while a unit processes an event whose hostname is one of the target's
\* FQDNs and whose source IP resolves to no "Pod" address, no step appends an
\* entry to HostnameMapping and no step emits a discovery record.
C1_UnresolvedContributesNothing ==
    [][\A u \in Units :
         (mutex = u /\ upc[u] \in {"check", "append"} /\ ~ulocal[u].found)
         => /\ \A h \in DOMAIN hostnamePodMapping' :
                  hostnamePodMapping'[h] = MappingAt(hostnamePodMapping, h)
            /\ discoveryLog' = discoveryLog]_vars

\* C2: in every reachable state, under every hostname, no two entries of
\* HostnameMapping carry the same podName.
C2_DedupInvariant ==
    \A h \in DOMAIN hostnamePodMapping :
        \A i, j \in DOMAIN hostnamePodMapping[h] :
            hostnamePodMapping[h][i].podname = hostnamePodMapping[h][j].podname => i = j

\* two events of the same resolvable pod under the same target hostname were
\* processed by two different units, and the pod has its one entry
C2_Witness ==
    /\ cpc = "returned"
    /\ concurrency = 1
    /\ \E i, j \in DOMAIN connectionLogs :
        /\ i < j
        /\ connectionLogs[i] = connectionLogs[j]
        /\ Targeted(connectionLogs[i])
        /\ Resolved(connectionLogs[i]).found
        /\ \E k \in DOMAIN hostnamePodMapping[connectionLogs[i].ToHostname] :
             hostnamePodMapping[connectionLogs[i].ToHostname][k].podname =
                Resolved(connectionLogs[i]).fromPodName

\* C3: in every reachable state the discovery records naming a hostname are,
\* in order, exactly the entries of HostnameMapping under that hostname: one
\* record per (hostname, podName) pair, emitted with the append, and never a
\* second one.
C3_OneRecordPerPair ==
    /\ \A i \in DOMAIN discoveryLog : discoveryLog[i].svc \in DOMAIN hostnamePodMapping
    /\ \A h \in DOMAIN hostnamePodMapping :
        LET OfHost(r) == r.svc = h
            recs == SelectSeq(discoveryLog, OfHost)
        IN  /\ Len(recs) = Len(hostnamePodMapping[h])
            /\ \A i \in DOMAIN recs :
                 /\ recs[i].pod = hostnamePodMapping[h][i].podname
                 /\ recs[i].ns = hostnamePodMapping[h][i].namespace
    /\ \A i, j \in DOMAIN discoveryLog :
         (discoveryLog[i].svc = discoveryLog[j].svc /\ discoveryLog[i].pod = discoveryLog[j].pod)
         => i = j

\* the same pair recurred three times, in the same segment and in another
\* one, and the run ended with a single record
C3_Witness ==
    /\ cpc = "returned"
    /\ concurrency = 2
    /\ Len(connectionLogs) = 3
    /\ connectionLogs[1] = connectionLogs[2]
    /\ connectionLogs[2] = connectionLogs[3]
    /\ Targeted(connectionLogs[1])
    /\ Resolved(connectionLogs[1]).found
    /\ Len(discoveryLog) = 1
    /\ discoveryLog[1].pod = Resolved(connectionLogs[1]).fromPodName

\* C4: when the correlation phase has returned, the mapping holds the same
\* (hostname, podName, namespace) entries whatever the interleaving was: the
\* entries that processing the event list in order yields.
C4_CorrelationDeterministic ==
    (cpc = "returned" /\ concurrency >= 1)
    => EntriesOf(hostnamePodMapping) =
         EntriesOf(FoldLogs([m |-> <<>>, log |-> <<>>, panic |-> FALSE], connectionLogs,
                            toPodServiceFQDNs, allNamespaces, allEndpoints).m)


----------------------------------------------------------------------------
(* Log lines *)

ScenarioA ==
    "[INFO] 10.42.2.90:59003 - 9687 \"AAAA IN user-db.sock-shop.svc.cluster.local. udp 53 false 512\" NOERROR qr,aa,rd 146 0.000428325s"


----------------------------------------------------------------------------
(* findToPodServiceFQDNs *)

\* labels[k] of a Go map: the zero value "" for a missing key
LabelAt(labels, k) == IF k \in DOMAIN labels THEN labels[k] ELSE ""

Service(name, ns, selector) == [Name |-> name, Namespace |-> ns, Selector |-> selector]

\* for _, s := range sList.Items: the next service, or the end of the loop
FindOuter ==
    /\ fpc = "outer"
    /\ IF fIdx < Len(sList)
       THEN /\ fIdx' = fIdx + 1
            /\ fKeys' = DOMAIN sList[fIdx + 1].Selector
            /\ fpc' = "inner"
       ELSE /\ fpc' = "format"
            /\ UNCHANGED <<fIdx, fKeys>>
    /\ UNCHANGED <<sList, toPodServices>>
    /\ UNCHANGED <<runnerVars, parseVars, polVars, waitVars, harvestVars, initVars, corrVars>>

\* for k, v := range selector: the range is over
FindInnerEnd ==
    /\ fpc = "inner"
    /\ fKeys = {}
    /\ fpc' = "outer"
    /\ UNCHANGED <<sList, fIdx, fKeys, toPodServices>>
    /\ UNCHANGED <<runnerVars, parseVars, polVars, waitVars, harvestVars, initVars, corrVars>>

\* for k, v := range selector: one iteration, at a key the range has not yet
\* visited (Go ranges over a map in an unspecified order):
\* if r.toPod.GetLabels()[k] != v { break } else { append }
FindVisit(k) ==
    /\ fpc = "inner"
    /\ k \in fKeys
    /\ LET s == sList[fIdx]
       IN  IF LabelAt(toPodLabels, k) # s.Selector[k]
           THEN /\ fpc' = "outer"
                /\ UNCHANGED <<fKeys, toPodServices>>
           ELSE /\ toPodServices' = Append(toPodServices, s)
                /\ fKeys' = fKeys \ {k}
                /\ UNCHANGED fpc
    /\ UNCHANGED <<sList, fIdx>>
    /\ UNCHANGED <<runnerVars, parseVars, polVars, waitVars, harvestVars, initVars, corrVars>>

\* the second loop, the return, and Initialize's r.toPodServiceFQDNs = ...
FindFormat ==
    /\ fpc = "format"
    /\ toPodServiceFQDNs' =
         [i \in DOMAIN toPodServices |->
            ServiceFQDN(toPodServices[i].Name, toPodServices[i].Namespace)]
    /\ fpc' = "done"
    /\ UNCHANGED <<toPodLabels, connectionLogs, hostnamePodMapping, concurrency,
                   waitForLogsDuration, coreDNSPods>>
    /\ UNCHANGED <<sList, fIdx, fKeys, toPodServices>>
    /\ UNCHANGED <<parseVars, polVars, waitVars, harvestVars, initVars, corrVars>>

LabelKeys == {"app", "tier"}
LabelVals == {"x", "y"}
LabelMaps == UNION {[K -> LabelVals] : K \in SUBSET LabelKeys}
ServiceNames == <<"db", "api", "web", "cart", "user">>

\* the error of a call to the API server
ApiErr(call) == [kind |-> "api", call |-> call]

\* Initialize: kubernetes.NewForConfig succeeds
InitClientset ==
    /\ phase = "clientset"
    /\ phase' = "getpod"
    /\ UNCHANGED initErr
    /\ UNCHANGED <<runnerVars, findVars, parseVars, polVars, waitVars, harvestVars, corrVars>>

\* Initialize: Pods(ns).Get returns the target pod
InitGetPod ==
    /\ phase = "getpod"
    /\ toPodLabels' \in LabelMaps
    /\ phase' = "listns"
    /\ UNCHANGED initErr
    /\ UNCHANGED <<toPodServiceFQDNs, connectionLogs, hostnamePodMapping, concurrency,
                   waitForLogsDuration, coreDNSPods>>
    /\ UNCHANGED <<findVars, parseVars, polVars, waitVars, harvestVars, corrVars>>

\* Initialize: Namespaces().List succeeds
InitListNamespaces ==
    /\ phase = "listns"
    /\ phase' = "listeps"
    /\ UNCHANGED initErr
    /\ UNCHANGED <<runnerVars, findVars, parseVars, polVars, waitVars, harvestVars, corrVars>>

\* Initialize: Endpoints(n.Name).List succeeds for every namespace
InitListEndpoints ==
    /\ phase = "listeps"
    /\ phase' = "listpods"
    /\ UNCHANGED initErr
    /\ UNCHANGED <<runnerVars, findVars, parseVars, polVars, waitVars, harvestVars, corrVars>>

\* Initialize: Pods("kube-system").List returns the CoreDNS pods, the Runner
\* is built and findToPodServiceFQDNs is called
InitListPods ==
    /\ phase = "listpods"
    /\ \E n \in 0..MaxSources : coreDNSPods' = 1..n
    /\ phase' = "find"
    /\ fpc' = "list"
    /\ UNCHANGED initErr
    /\ UNCHANGED <<toPodLabels, toPodServiceFQDNs, connectionLogs, hostnamePodMapping,
                   concurrency, waitForLogsDuration>>
    /\ UNCHANGED <<sList, fIdx, fKeys, toPodServices>>
    /\ UNCHANGED <<parseVars, polVars, waitVars, harvestVars, corrVars>>

SetupCalls == {"clientset", "getpod", "listns", "listeps", "listpods"}

\* Initialize: the call it is at fails: return nil, err
InitCallFail(p) ==
    /\ p \in SetupCalls
    /\ phase = p
    /\ phase' = "aborted"
    /\ initErr' = ApiErr(p)
    /\ UNCHANGED <<runnerVars, findVars, parseVars, polVars, waitVars, harvestVars, corrVars>>

\* findToPodServiceFQDNs: Services(ns).List returns the services
FindList ==
    /\ phase = "find"
    /\ fpc = "list"
    /\ \E n \in 0..MaxServices :
         \E sel \in [1..n -> LabelMaps] :
            sList' = [i \in 1..n |-> Service(ServiceNames[i], "shop", sel[i])]
    /\ fpc' = "outer"
    /\ UNCHANGED <<fIdx, fKeys, toPodServices>>
    /\ UNCHANGED <<runnerVars, parseVars, polVars, waitVars, harvestVars, initVars, corrVars>>

\* findToPodServiceFQDNs: Services(ns).List fails: return nil, err, and
\* Initialize returns the error
FindListFail ==
    /\ phase = "find"
    /\ fpc = "list"
    /\ fpc' = "failed"
    /\ phase' = "aborted"
    /\ initErr' = ApiErr("listsvc")
    /\ UNCHANGED <<sList, fIdx, fKeys, toPodServices>>
    /\ UNCHANGED <<runnerVars, parseVars, polVars, waitVars, harvestVars, corrVars>>

InitFind ==
    /\ toPodLabels = <<>>
    /\ toPodServiceFQDNs = <<>>
    /\ connectionLogs = <<>>
    /\ hostnamePodMapping = <<>>
    /\ concurrency = 1
    /\ waitForLogsDuration = 0
    /\ coreDNSPods = {}
    /\ FindIdle
    /\ WaitIdle /\ HarvestIdle /\ CorrIdle /\ ParseIdle /\ PolIdle
    /\ phase = "clientset" /\ initErr = NoErr

NextFind ==
    \/ InitClientset
    \/ InitGetPod
    \/ InitListNamespaces
    \/ InitListEndpoints
    \/ InitListPods
    \/ \E p \in SetupCalls : InitCallFail(p)
    \/ FindList
    \/ FindListFail
    \/ FindOuter
    \/ FindInnerEnd
    \/ \E k \in LabelKeys : FindVisit(k)
    \/ FindFormat

SpecFind == InitFind /\ [][NextFind]_vars

\* the service's selector is non-empty and every pair of it equals the
\* target pod's label for that key
Selected(s) ==
    /\ DOMAIN s.Selector # {}
    /\ \A k \in DOMAIN s.Selector :
         k \in DOMAIN toPodLabels /\ toPodLabels[k] = s.Selector[k]

\* C5: when findToPodServiceFQDNs has returned, the FQDN of every listed
\* service occurs in the result once if the service is selected and not at
\* all otherwise, and the result holds nothing else.
C5_ExactlyTheSelectedServices ==
    fpc = "done" =>
        /\ \A i \in DOMAIN sList :
             Cardinality({j \in DOMAIN toPodServiceFQDNs :
                            toPodServiceFQDNs[j] = ServiceFQDN(sList[i].Name, sList[i].Namespace)})
               = IF Selected(sList[i]) THEN 1 ELSE 0
        /\ \A j \in DOMAIN toPodServiceFQDNs :
             \E i \in DOMAIN sList :
                toPodServiceFQDNs[j] = ServiceFQDN(sList[i].Name, sList[i].Namespace)


----------------------------------------------------------------------------
(* waitForLogs, and what Initialize does with its result *)

\* lines a CoreDNS pod may log
LineOk == "[INFO] 10.1:53 - 1 \"A IN db.shop.svc.cluster.local. udp\" NOERROR qr 0.1s"
LineNx == "[INFO] 10.1:53 - 1 \"A IN db.shop.svc.cluster.local. udp\" NXDOMAIN qr 0.1s"
LineBad == "[INFO] 10.1 - 1: \"A IN db.shop.svc.cluster.local. udp\" NOERROR qr 0.1s"
LineSamples == {ScenarioA, LineOk, LineNx, LineBad}

\* wg2.Wait() returns when every per-pod goroutine has run its deferred
\* wg2.Done(): it has returned, or it is panicking and has run its defers
Wg2ReleasedMutant(w) == \E s \in DOMAIN w : w[s] \in {"done", "panicking"}
Wg2Released(w) == \A s \in DOMAIN w : w[s] \in {"done", "panicking"}

\* if err := r.waitForLogs(); err != nil { return nil, err }
AfterWaitMutant(err) == "harvest"
AfterWait(err) == IF err # NoErr THEN "aborted" ELSE "harvest"

\* tStart := time.Now(), defer wg2.Done(), and the goroutine calls
\* req.Stream, which blocks until the API server answers
WaitStart(s) ==
    /\ phase = "wait"
    /\ s \in coreDNSPods
    /\ wpc[s] = "start"
    /\ tStart' = [tStart EXCEPT ![s] = clock]
    /\ wpc' = [wpc EXCEPT ![s] = "open"]
    /\ UNCHANGED <<clock, outcome, e, waitReturned>>
    /\ UNCHANGED <<runnerVars, findVars, parseVars, polVars, harvestVars, initVars, corrVars>>

\* req.Stream returns the stream
WaitOpen(s) ==
    /\ phase = "wait"
    /\ s \in coreDNSPods
    /\ wpc[s] = "open"
    /\ wpc' = [wpc EXCEPT ![s] = "scan"]
    /\ UNCHANGED <<clock, tStart, outcome, e, waitReturned>>
    /\ UNCHANGED <<runnerVars, findVars, parseVars, polVars, harvestVars, initVars, corrVars>>

\* req.Stream returns an error: mu.Lock(); e = err; mu.Unlock(), and the
\* goroutine goes on with the nil stream
WaitOpenFail(s) ==
    /\ phase = "wait"
    /\ s \in coreDNSPods
    /\ wpc[s] = "open"
    /\ e' = StreamErr(s)
    /\ outcome' = [outcome EXCEPT ![s] = "StreamError"]
    /\ wpc' = [wpc EXCEPT ![s] = "nilstream"]
    /\ UNCHANGED <<clock, tStart, waitReturned>>
    /\ UNCHANGED <<runnerVars, findVars, parseVars, polVars, harvestVars, initVars, corrVars>>

\* defer stream.Close() on the nil stream panics: the goroutine unwinds and
\* runs its deferred wg2.Done()
WaitNilStream(s) ==
    /\ phase = "wait"
    /\ s \in coreDNSPods
    /\ wpc[s] = "nilstream"
    /\ wpc' = [wpc EXCEPT ![s] = "panicking"]
    /\ UNCHANGED <<clock, tStart, outcome, e, waitReturned>>
    /\ UNCHANGED <<runnerVars, findVars, parseVars, polVars, harvestVars, initVars, corrVars>>

\* the panic is not recovered: the runtime prints it and exits the process,
\* unless Initialize has returned before (the other goroutines keep running
\* while the panicking one unwinds)
WaitCrash(s) ==
    /\ phase = "wait"
    /\ s \in coreDNSPods
    /\ wpc[s] = "panicking"
    /\ phase' = "crashed"
    /\ UNCHANGED initErr
    /\ UNCHANGED <<runnerVars, findVars, parseVars, polVars, waitVars, harvestVars, corrVars>>

\* scanner.Scan() returns true with a line: the deadline is looked at only
\* here, then the relevance of the line
WaitLine(s, t) ==
    /\ phase = "wait"
    /\ s \in coreDNSPods
    /\ wpc[s] = "scan"
    /\ IF clock - tStart[s] > waitForLogsDuration
       THEN /\ e' = TimeoutErr(s)
            /\ outcome' = [outcome EXCEPT ![s] = "TimedOut"]
            /\ wpc' = [wpc EXCEPT ![s] = "done"]
       ELSE IF relevantLogMsg(t)
       THEN /\ outcome' = [outcome EXCEPT ![s] = "Found"]
            /\ wpc' = [wpc EXCEPT ![s] = "done"]
            /\ UNCHANGED e
       ELSE UNCHANGED <<e, outcome, wpc>>
    /\ UNCHANGED <<clock, tStart, waitReturned>>
    /\ UNCHANGED <<runnerVars, findVars, parseVars, polVars, harvestVars, initVars, corrVars>>

\* scanner.Scan() returns false at the end of the stream, scanner.Err() is
\* nil: the goroutine returns and leaves e as it is
WaitEOF(s) ==
    /\ phase = "wait"
    /\ s \in coreDNSPods
    /\ wpc[s] = "scan"
    /\ outcome' = [outcome EXCEPT ![s] = "Ended"]
    /\ wpc' = [wpc EXCEPT ![s] = "done"]
    /\ UNCHANGED <<clock, tStart, e, waitReturned>>
    /\ UNCHANGED <<runnerVars, findVars, parseVars, polVars, harvestVars, initVars, corrVars>>

\* scanner.Scan() returns false on a read error: log.Fatal(err) exits the
\* process
WaitReadErr(s) ==
    /\ phase = "wait"
    /\ s \in coreDNSPods
    /\ wpc[s] = "scan"
    /\ outcome' = [outcome EXCEPT ![s] = "StreamError"]
    /\ phase' = "fatal"
    /\ UNCHANGED initErr
    /\ UNCHANGED <<clock, wpc, tStart, e, waitReturned>>
    /\ UNCHANGED <<runnerVars, findVars, parseVars, polVars, harvestVars, corrVars>>

\* time passes. The clock stops at MaxClock, which is past every deadline of
\* a source opened before MaxClock - waitForLogsDuration: later ticks would
\* change nothing such a source can observe.
Tick ==
    /\ phase = "wait"
    /\ clock < MaxClock
    /\ clock' = clock + 1
    /\ UNCHANGED <<wpc, tStart, outcome, e, waitReturned>>
    /\ UNCHANGED <<runnerVars, findVars, parseVars, polVars, harvestVars, initVars, corrVars>>

\* wg2.Wait(), wg.Wait(), return e; then Initialize returns the error or
\* goes on to parseConnectionLogs
WaitReturn ==
    /\ phase = "wait"
    /\ Wg2Released(wpc)
    /\ waitReturned' = TRUE
    /\ phase' = AfterWait(e)
    /\ initErr' = e
    /\ hpc' = IF AfterWait(e) = "harvest" THEN "open" ELSE hpc
    /\ UNCHANGED <<clock, wpc, tStart, outcome, e>>
    /\ UNCHANGED <<hIdx, hLines, connLogList, harvested>>
    /\ UNCHANGED <<runnerVars, findVars, parseVars, polVars, corrVars>>

Durations == 1..(MaxClock - 1)

InitWait ==
    /\ toPodLabels = <<>>
    /\ toPodServiceFQDNs = TargetFQDNs
    /\ connectionLogs = <<>>
    /\ hostnamePodMapping = <<>>
    /\ concurrency = 1
    /\ waitForLogsDuration \in Durations
    /\ \E n \in 0..MaxSources : coreDNSPods = 1..n
    /\ FindIdle /\ HarvestIdle /\ CorrIdle /\ ParseIdle /\ PolIdle
    /\ phase = "wait" /\ initErr = NoErr
    /\ clock = 0
    /\ wpc = [s \in coreDNSPods |-> "start"]
    /\ tStart = [s \in coreDNSPods |-> 0]
    /\ outcome = [s \in coreDNSPods |-> "Waiting"]
    /\ e = NoErr
    /\ waitReturned = FALSE

NextWait ==
    \/ \E s \in coreDNSPods : WaitStart(s)
    \/ \E s \in coreDNSPods : WaitOpen(s)
    \/ \E s \in coreDNSPods : WaitOpenFail(s)
    \/ \E s \in coreDNSPods : WaitNilStream(s)
    \/ \E s \in coreDNSPods : WaitCrash(s)
    \/ \E s \in coreDNSPods : \E t \in LineSamples : WaitLine(s, t)
    \/ \E s \in coreDNSPods : WaitEOF(s)
    \/ \E s \in coreDNSPods : WaitReadErr(s)
    \/ Tick
    \/ WaitReturn

SpecWait == InitWait /\ [][NextWait]_vars

\* What the scheduler and the API server guarantee: a goroutine that can
\* take a step of its own takes it, an open call returns, time passes. That
\* a stream delivers a line, ends or fails is up to the CoreDNS pod: no
\* fairness.
FairWait ==
    /\ WF_vars(Tick)
    /\ WF_vars(WaitReturn)
    /\ \A s \in 1..MaxSources : WF_vars(WaitStart(s))
    /\ \A s \in 1..MaxSources : WF_vars(WaitOpen(s) \/ WaitOpenFail(s))
    /\ \A s \in 1..MaxSources : WF_vars(WaitNilStream(s))
    /\ \A s \in 1..MaxSources : WF_vars(WaitCrash(s))

LiveWait == SpecWait /\ FairWait


----------------------------------------------------------------------------
(* parseConnectionLogs, and what Initialize does with its result *)

\* for _, pod := range r.coreDNSPods.Items: req.Stream succeeds
HarvestOpen ==
    /\ phase = "harvest"
    /\ hpc = "open"
    /\ hIdx < Cardinality(coreDNSPods)
    /\ hpc' = "scan"
    /\ hLines' = 0
    /\ UNCHANGED <<hIdx, connLogList, harvested>>
    /\ UNCHANGED <<runnerVars, findVars, parseVars, polVars, waitVars, initVars, corrVars>>

\* req.Stream fails: return nil, err, which Initialize returns
HarvestOpenFail ==
    /\ phase = "harvest"
    /\ hpc = "open"
    /\ hIdx < Cardinality(coreDNSPods)
    /\ phase' = "aborted"
    /\ initErr' = StreamErr(hIdx + 1)
    /\ UNCHANGED <<runnerVars, findVars, parseVars, polVars, waitVars, harvestVars, corrVars>>

\* scanner.Scan() returns true with a line t: parseLogMsg(t);
\* if err != nil { return nil, err }; if success { append }
HarvestLine(t) ==
    /\ phase = "harvest"
    /\ hpc = "scan"
    /\ hLines < MaxHarvestLines
    /\ LET r == parseLogMsg(t)
       IN  /\ harvested' = Append(harvested, t)
           /\ hLines' = hLines + 1
           /\ IF r.err # "nil"
              THEN /\ phase' = "aborted"
                   /\ initErr' = ParseErr(r.err)
                   /\ UNCHANGED connLogList
              ELSE /\ connLogList' = IF r.success THEN Append(connLogList, r.c)
                                     ELSE connLogList
                   /\ UNCHANGED <<phase, initErr>>
    /\ UNCHANGED <<hIdx, hpc>>
    /\ UNCHANGED <<runnerVars, findVars, parseVars, polVars, waitVars, corrVars>>

\* scanner.Scan() returns false at the end of the stream: the next pod
HarvestEOF ==
    /\ phase = "harvest"
    /\ hpc = "scan"
    /\ hIdx' = hIdx + 1
    /\ hpc' = "open"
    /\ UNCHANGED <<hLines, connLogList, harvested>>
    /\ UNCHANGED <<runnerVars, findVars, parseVars, polVars, waitVars, initVars, corrVars>>

\* scanner.Scan() returns false on a read error: log.Fatal(err)
HarvestReadErr ==
    /\ phase = "harvest"
    /\ hpc = "scan"
    /\ phase' = "fatal"
    /\ UNCHANGED initErr
    /\ UNCHANGED <<runnerVars, findVars, parseVars, polVars, waitVars, harvestVars, corrVars>>

\* return connLogList, nil; r.connectionLogs = connLogList; return r, nil
HarvestReturn ==
    /\ phase = "harvest"
    /\ hpc = "open"
    /\ hIdx >= Cardinality(coreDNSPods)
    /\ connectionLogs' = connLogList
    /\ phase' = "initialized"
    /\ UNCHANGED initErr
    /\ UNCHANGED <<toPodLabels, toPodServiceFQDNs, hostnamePodMapping, concurrency,
                   waitForLogsDuration, coreDNSPods>>
    /\ UNCHANGED <<findVars, parseVars, polVars, waitVars, harvestVars, corrVars>>

\* Initialize after waitForLogs returned nil
InitHarvest ==
    /\ toPodLabels = <<>>
    /\ toPodServiceFQDNs = TargetFQDNs
    /\ connectionLogs = <<>>
    /\ hostnamePodMapping = <<>>
    /\ concurrency = 1
    /\ waitForLogsDuration = 1
    /\ \E n \in 0..MaxSources : coreDNSPods = 1..n
    /\ FindIdle /\ CorrIdle /\ ParseIdle /\ PolIdle
    /\ phase = "harvest" /\ initErr = NoErr
    /\ clock = 0
    /\ wpc = [s \in coreDNSPods |-> "done"]
    /\ tStart = [s \in coreDNSPods |-> 0]
    /\ outcome = [s \in coreDNSPods |-> "Found"]
    /\ e = NoErr
    /\ waitReturned = TRUE
    /\ hIdx = 0 /\ hpc = "open" /\ hLines = 0 /\ connLogList = <<>> /\ harvested = <<>>

NextHarvest ==
    \/ HarvestOpen
    \/ HarvestOpenFail
    \/ \E t \in LineSamples : HarvestLine(t)
    \/ HarvestEOF
    \/ HarvestReadErr
    \/ HarvestReturn

SpecHarvest == InitHarvest /\ [][NextHarvest]_vars

----------------------------------------------------------------------------
(* Claims about the LogWaiter and the harvesting *)

Dead == phase \in {"crashed", "fatal"}

\* source s is blocked in scanner.Scan()
Scanning(s) == s \in coreDNSPods /\ wpc[s] = "scan"
\* source s is still waiting although its deadline has elapsed
PastDeadline(s) == Scanning(s) /\ clock - tStart[s] > waitForLogsDuration

\* C6: a source whose deadline has elapsed stops waiting, whether or not its
\* stream delivers another line, and the wait phase always comes to an end.
C6_WaitEndsAtDeadline ==
    /\ \A s \in 1..MaxSources :
         [](PastDeadline(s) => <>(~Scanning(s) \/ Dead))
    /\ <>(waitReturned \/ Dead)

\* C7: waitForLogs has returned only if every per-source goroutine has
\* reached its end (it has returned, or it has panicked after a failed open
\* and run its deferred wg2.Done()) and its source has left Waiting, and the
\* step in which one source finds its line changes no other source and does
\* not make waitForLogs return.
C7_Barrier ==
    /\ [](waitReturned =>
            \A s \in coreDNSPods :
                wpc[s] \in {"done", "panicking"} /\ outcome[s] # "Waiting")
    /\ [][\A s \in coreDNSPods :
            (outcome[s] = "Waiting" /\ outcome'[s] = "Found")
            => /\ waitReturned' = waitReturned
               /\ \A t \in coreDNSPods \ {s} :
                    /\ wpc'[t] = wpc[t]
                    /\ outcome'[t] = outcome[t]
                    /\ tStart'[t] = tStart[t]]_vars

\* two sources started together; the first found its line within the
\* deadline, the second went on waiting past it, and only then did
\* waitForLogs return
C7_Witness ==
    /\ waitReturned
    /\ coreDNSPods = {1, 2}
    /\ outcome[1] = "Found"
    /\ outcome[2] = "TimedOut"
    /\ tStart[1] = tStart[2]

\* C8 (amended): a TimedOut source leaves a non-nil error in the slot, and
\* once waitForLogs has returned Initialize has returned an error: the run
\* never reaches harvesting.
C8_TimedOutIsFatal ==
    (\E s \in coreDNSPods : outcome[s] = "TimedOut")
    => /\ e # NoErr
       /\ phase \notin {"harvest", "initialized"}
       /\ waitReturned => (phase = "aborted" /\ initErr # NoErr)

\* one source found its line, the other timed out, and Initialize returned
\* the timeout error
C8_Witness ==
    /\ phase = "aborted"
    /\ initErr.kind = "timeout"
    /\ \E s, t \in coreDNSPods : outcome[s] = "Found" /\ outcome[t] = "TimedOut"

\* C8 (as stated): once every source has ended Found or TimedOut and
\* waitForLogs has returned, the run proceeds to harvesting.
C8_TimedOutNonFatal ==
    (waitReturned /\ \A s \in coreDNSPods : outcome[s] \in {"Found", "TimedOut"})
    => phase = "harvest"

\* C9: a source whose stream failed to open or to read is in StreamError, and
\* the process has neither crashed nor exited, nor has Initialize returned the
\* stream's error.
C9_StreamErrorIsLocal ==
    /\ (\E s \in coreDNSPods : outcome[s] = "StreamError") => ~Dead
    /\ ~(phase = "aborted" /\ initErr.kind = "stream")

\* the events of the lines that parse successfully, in order
RECURSIVE EventsOf(_)
EventsOf(lines) ==
    IF lines = <<>> THEN <<>>
    ELSE (IF parseLogMsg(Head(lines)).success THEN <<parseLogMsg(Head(lines)).c>> ELSE <<>>)
         \o EventsOf(Tail(lines))

\* C10: a line whose parse fails does not end the harvesting, and the list
\* parseConnectionLogs returns holds the events of all the lines read that
\* parse successfully.
C10_ParseErrorIsDropped ==
    /\ ~(phase = "aborted" /\ initErr.kind = "parse")
    /\ phase = "initialized" => connectionLogs = EventsOf(harvested)

----------------------------------------------------------------------------
(* LogGrammar on one line: relevantLogMsg and parseLogMsg are called on a  *)
(* line written in the layout of the CoreDNS log plugin, with each field   *)
(* drawn from a few samples.                                               *)

\* "[INFO] <ip>:<port> - <id> "<type> <class> <name> <proto> ..." <rcode> ..."
BuildLine(f) ==
    f.prefix \o f.sep \o f.extra \o f.ip \o f.colon \o f.port
        \o " - 9687 \"AAAA IN " \o f.name \o f.suffix
        \o " udp 53 false 512\" " \o f.rcode \o " qr,aa,rd 146 0.000428325s"

Prefixes == {"[INFO]", "[ERROR]", "x[INFO]"}
\* what separates "[INFO]" from the next field
Seps == {" ", "  "}
\* a field written ahead of the client address (none, or a time of day)
Extras == {"", "12:30:01 "}
\* the client address: <ip>:<port>, either side empty, no colon, IPv6
ClientAddrs ==
    {[ip |-> "10.42.2.90", colon |-> ":", port |-> "59003"],
     [ip |-> "", colon |-> ":", port |-> "59003"],
     [ip |-> "10.42.2.90", colon |-> ":", port |-> ""],
     [ip |-> "10.42.2.90", colon |-> "", port |-> ""],
     [ip |-> "[fd00::1]", colon |-> ":", port |-> "53"]}
QueriedNames == {"user-db.sock-shop", ""}
Suffixes == {fqdnSuffix, ".example.com."}
Rcodes == {"NOERROR", "NXDOMAIN"}

LineFields ==
    {[prefix |-> p, sep |-> s, extra |-> x, ip |-> a.ip, colon |-> a.colon,
      port |-> a.port, name |-> n, suffix |-> sf, rcode |-> rc] :
        p \in Prefixes, s \in Seps, x \in Extras, a \in ClientAddrs,
        n \in QueriedNames, sf \in Suffixes, rc \in Rcodes}

\* the fields of the line of Scenario A
ScenarioAFields ==
    [prefix |-> "[INFO]", sep |-> " ", extra |-> "", ip |-> "10.42.2.90",
     colon |-> ":", port |-> "59003", name |-> "user-db.sock-shop",
     suffix |-> fqdnSuffix, rcode |-> "NOERROR"]

\* relevantLogMsg(logLine) is called
CallRelevant ==
    /\ "relevantLogMsg" \notin called
    /\ relevant' = relevantLogMsg(logLine)
    /\ called' = called \cup {"relevantLogMsg"}
    /\ UNCHANGED <<logLine, fields, parsed>>
    /\ UNCHANGED <<runnerVars, findVars, waitVars, harvestVars, initVars, corrVars, polVars>>

\* parseLogMsg(logLine) is called
CallParse ==
    /\ "parseLogMsg" \notin called
    /\ parsed' = parseLogMsg(logLine)
    /\ called' = called \cup {"parseLogMsg"}
    /\ UNCHANGED <<logLine, fields, relevant>>
    /\ UNCHANGED <<runnerVars, findVars, waitVars, harvestVars, initVars, corrVars, polVars>>

InitParse ==
    /\ toPodLabels = <<>>
    /\ toPodServiceFQDNs = <<>>
    /\ connectionLogs = <<>>
    /\ hostnamePodMapping = <<>>
    /\ concurrency = 1
    /\ waitForLogsDuration = 0
    /\ coreDNSPods = {}
    /\ FindIdle /\ WaitIdle /\ HarvestIdle /\ CorrIdle /\ PolIdle
    /\ phase = "harvest" /\ initErr = NoErr
    /\ fields \in LineFields
    /\ logLine = BuildLine(fields)
    /\ called = {}
    /\ relevant = FALSE
    /\ parsed = [c |-> NilLog, err |-> "nil", success |-> FALSE]

NextParse ==
    \/ CallRelevant
    \/ CallParse

SpecParse == InitParse /\ [][NextParse]_vars

----------------------------------------------------------------------------
(* Claims about the LogGrammar *)

\* what the line holds, read off the fields it was written from
BeginsWithInfo(f) == f.prefix = "[INFO]"
HasFqdnSuffix(f) == f.suffix = fqdnSuffix
HasNoError(f) == f.rcode = "NOERROR"
HasColon(f) == f.colon = ":" \/ f.extra # ""
AllFour(f) == BeginsWithInfo(f) /\ HasFqdnSuffix(f) /\ HasNoError(f) /\ HasColon(f)
NoEventNoError == [c |-> NilLog, err |-> "nil", success |-> FALSE]
Event(ip, port, fqdn) == [c |-> ConnectionLog(ip, port, fqdn), err |-> "nil", success |-> TRUE]

\* C11: relevantLogMsg is true exactly when the line begins with [INFO],
\* contains the FQDN suffix, contains NOERROR and contains a colon; on a line
\* that lacks any of the four parseLogMsg returns no event and no error.
C11_RelevantIffAllFour ==
    /\ "relevantLogMsg" \in called => (relevant <=> AllFour(fields))
    /\ ("parseLogMsg" \in called /\ ~AllFour(fields)) => parsed = NoEventNoError

\* Scenario B: the line of Scenario A with NXDOMAIN in place of NOERROR was
\* given to both functions: not relevant, no event, no error.
C11_Witness ==
    /\ called = {"relevantLogMsg", "parseLogMsg"}
    /\ fields = [ScenarioAFields EXCEPT !.rcode = "NXDOMAIN"]
    /\ ~relevant
    /\ parsed = NoEventNoError

\* a relevant line with the client address as the field after [INFO], both
\* of its sides non-empty, and a non-empty name before the FQDN suffix
WellFormed(f) ==
    /\ AllFour(f)
    /\ f.extra = ""
    /\ f.ip # "" /\ f.colon = ":" /\ f.port # ""
    /\ f.name # ""

\* C12 (as stated): on every well-formed relevant line, whatever whitespace
\* separates [INFO] from the client address, parseLogMsg returns the event
\* {ip, port, name + suffix}.
C12_WellFormedParses ==
    ("parseLogMsg" \in called /\ WellFormed(fields)) =>
        parsed = Event(fields.ip, fields.port, fields.name \o fields.suffix)

\* C12 (amended): on every well-formed relevant line whose fields are
\* separated by exactly one space character, parseLogMsg returns the event
\* {ip, port, name + suffix}.
C12_SingleSpaceParses ==
    ("parseLogMsg" \in called /\ WellFormed(fields) /\ fields.sep = " ") =>
        parsed = Event(fields.ip, fields.port, fields.name \o fields.suffix)

\* the line of Scenario A was parsed into its event
C12_Witness ==
    /\ "parseLogMsg" \in called
    /\ fields = ScenarioAFields
    /\ logLine = ScenarioA
    /\ parsed = Event("10.42.2.90", "59003", "user-db.sock-shop.svc.cluster.local.")

\* C13: on a relevant line parseLogMsg returns either a ParseError or the
\* event made of the two sides of the client address and the queried name:
\* never an event with other contents.
C13_NoSilentlyWrongEvent ==
    ("parseLogMsg" \in called /\ AllFour(fields)) =>
        IF parsed.success
        THEN parsed = Event(fields.ip, fields.port, fields.name \o fields.suffix)
        ELSE parsed.err # "nil" /\ parsed.c = NilLog

----------------------------------------------------------------------------
(* PolicySynthesizer: suggestNetPol *)

\* A Go map[string]string: nil, or a map with its key/value pairs
NilMap == [nil |-> TRUE, kv |-> <<>>]
GoMap(kv) == [nil |-> FALSE, kv |-> kv]

\* delete(l, k): no-op on a nil map and on a missing key
Delete(l, k) ==
    IF l.nil THEN l
    ELSE [l EXCEPT !.kv = [x \in (DOMAIN l.kv) \ {k} |-> l.kv[x]]]

ignoredPodLabels == <<"pod-template-hash">>

\* for _, ignoredLabel := range ignoredPodLabels { delete(l, ignoredLabel) }
RECURSIVE DeleteAll(_, _)
DeleteAll(l, keys) ==
    IF keys = <<>> THEN l ELSE DeleteAll(Delete(l, Head(keys)), Tail(keys))

\* reflect.DeepEqual on two maps: both nil or both non-nil, and the same pairs
DeepEqual(a, b) == a.nil = b.nil /\ a.kv = b.kv

\* the found loop: no `break`, every peer is compared
FoundPeer(peers, l) == \E i \in DOMAIN peers : DeepEqual(peers[i], l)

\* if !found { netPolPeers = append(netPolPeers, ...MatchLabels: l) }
AddPeer(peers, l) == IF FoundPeer(peers, l) THEN peers ELSE Append(peers, l)

\* r.clientset.CoreV1().Pods(ns).Get(name): the typed client returns the pod,
\* or an error together with an empty Pod (whose labels are a nil map)
PodExists(pods, m) == <<m.namespace, m.podname>> \in DOMAIN pods
GetLabels(pods, m) ==
    IF PodExists(pods, m) THEN pods[<<m.namespace, m.podname>>] ELSE NilMap

toPodName == "user-db"

\* for _, mappings := range r.hostnamePodMapping: the range starts
PolEntry ==
    /\ spc = "entry"
    /\ sTodo' = DOMAIN hostnamePodMapping
    /\ spc' = "outer"
    /\ UNCHANGED <<podLabels, sAt, netPolPeers, fetchLog, netPol>>
    /\ UNCHANGED <<runnerVars, findVars, waitVars, harvestVars, initVars, corrVars, parseVars>>

\* the outer range visits a key it has not yet visited (Go ranges over a map
\* in an unspecified order)
PolOuter(h) ==
    /\ spc = "outer"
    /\ h \in sTodo
    /\ sTodo' = sTodo \ {h}
    /\ sAt' = [h |-> h, i |-> 1]
    /\ spc' = "inner"
    /\ UNCHANGED <<podLabels, netPolPeers, fetchLog, netPol>>
    /\ UNCHANGED <<runnerVars, findVars, waitVars, harvestVars, initVars, corrVars, parseVars>>

\* the inner range over one key's mappings is over
PolInnerEnd ==
    /\ spc = "inner"
    /\ sAt.i > Len(hostnamePodMapping[sAt.h])
    /\ spc' = "outer"
    /\ UNCHANGED <<podLabels, sTodo, sAt, netPolPeers, fetchLog, netPol>>
    /\ UNCHANGED <<runnerVars, findVars, waitVars, harvestVars, initVars, corrVars, parseVars>>

\* one iteration of the inner range whose Get succeeds: GetLabels, the
\* deletes, the found loop and the append
PolGetOk ==
    /\ spc = "inner"
    /\ sAt.i <= Len(hostnamePodMapping[sAt.h])
    /\ LET mapping == hostnamePodMapping[sAt.h][sAt.i]
           l == DeleteAll(GetLabels(podLabels, mapping), ignoredPodLabels)
       IN  /\ PodExists(podLabels, mapping)
           /\ netPolPeers' = AddPeer(netPolPeers, l)
           /\ fetchLog' = Append(fetchLog, [mapping |-> mapping, ok |-> TRUE])
    /\ sAt' = [sAt EXCEPT !.i = @ + 1]
    /\ UNCHANGED <<podLabels, spc, sTodo, netPol>>
    /\ UNCHANGED <<runnerVars, findVars, waitVars, harvestVars, initVars, corrVars, parseVars>>

\* one iteration of the inner range whose Get fails: the error is logged and
\* the iteration goes on with the Pod that Get returned
PolGetFail ==
    /\ spc = "inner"
    /\ sAt.i <= Len(hostnamePodMapping[sAt.h])
    /\ LET mapping == hostnamePodMapping[sAt.h][sAt.i]
           l == DeleteAll(GetLabels(podLabels, mapping), ignoredPodLabels)
       IN  /\ ~PodExists(podLabels, mapping)
           /\ netPolPeers' = AddPeer(netPolPeers, l)
           /\ fetchLog' = Append(fetchLog, [mapping |-> mapping, ok |-> FALSE])
    /\ sAt' = [sAt EXCEPT !.i = @ + 1]
    /\ UNCHANGED <<podLabels, spc, sTodo, netPol>>
    /\ UNCHANGED <<runnerVars, findVars, waitVars, harvestVars, initVars, corrVars, parseVars>>

\* the outer range is over: the target's labels are stripped and the
\* NetworkPolicy n is built (and printed)
PolBuild ==
    /\ spc = "outer"
    /\ sTodo = {}
    /\ LET stripped == DeleteAll(GoMap(toPodLabels), ignoredPodLabels).kv
       IN  /\ toPodLabels' = stripped
           /\ netPol' = [Kind |-> "NetworkPolicy",
                         APIVersion |-> "networking.k8s.io/v1",
                         Name |-> toPodName \o "-ingress",
                         PodSelector |-> stripped,
                         Ingress |-> <<[From |-> netPolPeers]>>]
    /\ spc' = "returned"
    /\ UNCHANGED <<toPodServiceFQDNs, connectionLogs, hostnamePodMapping, concurrency,
                   waitForLogsDuration, coreDNSPods>>
    /\ UNCHANGED <<podLabels, sTodo, sAt, netPolPeers, fetchLog>>
    /\ UNCHANGED <<findVars, waitVars, harvestVars, initVars, corrVars, parseVars>>

\* the callers the correlation found, and what the cluster holds for each:
\* no labels, labels, or nothing (the pod is gone and the Get fails)
CallerNames == <<"user-1", "user-2", "cart-1", "cart-2", "web-1">>
CallerLabels ==
    {NilMap,
     GoMap([k \in {"pod-template-hash"} |-> "h1"]),
     GoMap("name" :> "user" @@ "pod-template-hash" :> "h1"),
     GoMap("name" :> "user" @@ "pod-template-hash" :> "h2"),
     GoMap([k \in {"name"} |-> "cart"])}
TargetLabels == {<<>>, "name" :> "user-db" @@ "pod-template-hash" :> "h9"}

\* the mappings under hostname h: the callers placed under it, in order
MappingsUnder(place, h) ==
    LET idx == {i \in DOMAIN place : h \in place[i]}
        F[n \in 0..MaxCallers] ==
            IF n = 0 THEN <<>>
            ELSE IF n \in idx THEN Append(F[n - 1], Mapping(CallerNames[n], "shop"))
            ELSE F[n - 1]
    IN  F[MaxCallers]

InitPol ==
    /\ toPodLabels \in TargetLabels
    /\ toPodServiceFQDNs = TargetFQDNs
    /\ connectionLogs = <<>>
    /\ \E place \in [1..MaxCallers -> {{HostDb}, {HostApi}, {HostDb, HostApi}}] :
         hostnamePodMapping =
            [h \in UNION {place[i] : i \in 1..MaxCallers} |-> MappingsUnder(place, h)]
    /\ concurrency = 1
    /\ waitForLogsDuration = 0
    /\ coreDNSPods = {}
    /\ FindIdle /\ WaitIdle /\ HarvestIdle /\ CorrIdle /\ ParseIdle
    /\ phase = "initialized" /\ initErr = NoErr
    /\ \E gone \in SUBSET (1..MaxCallers) :
         \E lab \in [(1..MaxCallers) \ gone -> CallerLabels] :
            podLabels = [k \in {<<"shop", CallerNames[i]>> : i \in (1..MaxCallers) \ gone} |->
                            lab[CHOOSE i \in (1..MaxCallers) \ gone : CallerNames[i] = k[2]]]
    /\ spc = "entry" /\ sTodo = {} /\ sAt = <<>>
    /\ netPolPeers = <<>> /\ fetchLog = <<>> /\ netPol = <<>>

NextPol ==
    \/ PolEntry
    \/ \E h \in {HostDb, HostApi} : PolOuter(h)
    \/ PolInnerEnd
    \/ PolGetOk
    \/ PolGetFail
    \/ PolBuild

SpecPol == InitPol /\ [][NextPol]_vars

----------------------------------------------------------------------------
(* Claims about the PolicySynthesizer *)

\* the pairs of a label map, with the noise labels left out
Pairs(l) == {<<k, l.kv[k]>> : k \in {x \in DOMAIN l.kv : \A i \in DOMAIN ignoredPodLabels : x # ignoredPodLabels[i]}}

\* C14: when suggestNetPol has returned, no two peers of the policy have
\* label maps that are equal as sets of key/value pairs.
C14_PolicyDedup ==
    spc = "returned" =>
        \A i, j \in DOMAIN netPol.Ingress[1].From :
            i # j => Pairs(netPol.Ingress[1].From[i]) # Pairs(netPol.Ingress[1].From[j])

\* C15: an iteration whose label fetch fails adds no peer.
C15_FailedFetchAddsNoPeer ==
    [][(Len(fetchLog') = Len(fetchLog) + 1 /\ ~fetchLog'[Len(fetchLog')].ok)
          => netPolPeers' = netPolPeers]_vars

\* C16: when suggestNetPol has returned, the policy has one ingress rule whose
\* peers are exactly the stripped label maps of the callers whose labels were
\* fetched; its pod selector is the target's labels without the noise labels;
\* no label map of it has a noise key.
C16_UnionOfFetchedCallers ==
    spc = "returned" =>
        /\ Len(netPol.Ingress) = 1
        /\ {Pairs(netPol.Ingress[1].From[i]) : i \in DOMAIN netPol.Ingress[1].From}
             = {Pairs(podLabels[<<fetchLog[i].mapping.namespace, fetchLog[i].mapping.podname>>]) :
                    i \in {x \in DOMAIN fetchLog : fetchLog[x].ok}}
        /\ \A i \in DOMAIN netPol.Ingress[1].From :
             \A x \in DOMAIN ignoredPodLabels :
                ignoredPodLabels[x] \notin DOMAIN netPol.Ingress[1].From[i].kv
        /\ \A x \in DOMAIN ignoredPodLabels :
             ignoredPodLabels[x] \notin DOMAIN netPol.PodSelector

----------------------------------------------------------------------------
(* Claims about the segments and the units of processConnectionLogs *)

\* the partition the claim describes: floor(L/c) segments of c events and,
\* when L mod c # 0, a last segment of the remaining L mod c events
ExpectedSegs(L, c) ==
    LET q == L \div c
        r == L % c
    IN  [i \in 1..(q + IF r # 0 THEN 1 ELSE 0) |->
            IF i <= q THEN [from |-> (i - 1) * c, to |-> i * c]
            ELSE [from |-> L - r, to |-> L]]

\* C17: for every event list and every concurrency factor c >= 1, once the
\* units are spawned the segments are the floor(L/c) runs of c events plus
\* the remainder; every event index lies in exactly one segment; a unit
\* walks its segment one event at a time, and when processConnectionLogs has
\* returned every unit has walked its whole segment.
C17_Partition ==
    /\ [](concurrency >= 1 /\ cpc \in {"recv", "returned"} =>
            /\ segs = ExpectedSegs(Len(connectionLogs), concurrency)
            /\ \A k \in 0..(Len(connectionLogs) - 1) :
                 Cardinality({u \in Units : segs[u].from <= k /\ k < segs[u].to}) = 1
            /\ \A u \in Units : segs[u].from <= upos[u] /\ upos[u] <= segs[u].to
            /\ cpc = "returned" => \A u \in Units : upos[u] = segs[u].to)
    /\ [][\A u \in Units :
            \/ upos'[u] = upos[u]
            \/ upos'[u] = upos[u] + 1 /\ upc[u] = "unlock" /\ upos[u] < segs[u].to]_vars

\* three events and c = 2: a full segment and a remainder of one event, both
\* walked to their ends
C17_Witness ==
    /\ cpc = "returned"
    /\ concurrency = 2
    /\ Len(connectionLogs) = 3
    /\ segs = <<[from |-> 0, to |-> 2], [from |-> 2, to |-> 3]>>
    /\ upos = <<2, 3>>

\* C18: for c >= 1, processConnectionLogs returns only after every unit has
\* left its loop and handed over its completion message, and under fair
\* scheduling it eventually returns.
C18_JoinAndReturn ==
    concurrency >= 1 =>
        /\ [](cpc = "returned" =>
                \A u \in Units : upc[u] = "exited" /\ umsg[u] \in {"done", "errored"})
        /\ <>(cpc = "returned")

\* a unit is inside the region between m.Lock() and m.Unlock()
InRegion(u) == upc[u] \in {"resolve", "check", "append", "unlock"}

\* C19: at most one unit is inside the processing of an event, and it holds
\* the mutex; every step that changes HostnameMapping or the discovery log
\* is a step of that unit, so no other unit acts on the mapping between one
\* event's lookup and its append.
C19_MutualExclusion ==
    /\ [](/\ Cardinality({u \in Units : InRegion(u)}) <= 1
          /\ \A u \in Units : InRegion(u) => mutex = u)
    /\ [][(hostnamePodMapping' # hostnamePodMapping \/ discoveryLog' # discoveryLog) =>
            \E u \in Units :
                /\ InRegion(u) /\ mutex = u
                /\ upc'[u] # upc[u]
                /\ \A v \in Units \ {u} : upc'[v] = upc[v] /\ ~InRegion(v)]_vars

\* one unit is about to append while another unit, with an event left, waits
\* for the mutex
C19_Witness ==
    \E u, v \in Units :
        /\ u # v
        /\ upc[u] = "append" /\ mutex = u
        /\ upc[v] = "loop" /\ upos[v] < segs[v].to

\* the result the claim describes: the first address, in scan order, with
\* the IP and a target of kind "Pod"; other addresses are passed over
FirstPodAddress(ip) ==
    LET flat == ScanOrder(allNamespaces, allEndpoints)
        hits == {i \in DOMAIN flat :
                    /\ flat[i].IP = ip
                    /\ ~flat[i].TargetRef.nil
                    /\ flat[i].TargetRef.Kind = "Pod"}
    IN  IF hits = {} THEN [found |-> FALSE, fromPodName |-> "", fromNs |-> ""]
        ELSE [found |-> TRUE,
              fromPodName |-> flat[Min(hits)].TargetRef.Name,
              fromNs |-> flat[Min(hits)].TargetRef.Namespace]

\* C20: the scan a unit runs for an event of the target ends with the pod
\* name and namespace of the first address, in scan order, that has the
\* event's IP and kind "Pod", or with not-found; addresses with the IP and
\* another or no target are passed over.
C20_FirstPodMatch ==
    [][\A u \in Units :
          (/\ upc[u] = "resolve"
           /\ Targeted(EventAt(u))
           /\ (upc'[u] # "resolve" \/ cpc' = "crashed"))
          => /\ cpc' # "crashed"
             /\ ulocal'[u].found = FirstPodAddress(EventAt(u).FromIP).found
             /\ ulocal'[u].fromPodName = FirstPodAddress(EventAt(u).FromIP).fromPodName
             /\ ulocal'[u].fromNs = FirstPodAddress(EventAt(u).FromIP).fromNs]_vars

----------------------------------------------------------------------------
(* Claims about the error slot of waitForLogs and about the concurrency    *)
(* factor                                                                  *)

\* source s has ended in a failure
Failed(s) == s \in coreDNSPods /\ outcome[s] \in {"TimedOut", "StreamError"}
\* the errors the failing sources store in the slot
FailureErrs ==
    {TimeoutErr(s) : s \in {x \in coreDNSPods : outcome[x] = "TimedOut"}}
        \cup {StreamErr(s) : s \in {x \in coreDNSPods : outcome[x] = "StreamError"}}

\* C21: once a source has ended in TimedOut or StreamError the slot holds the
\* error of a failing source and is never set back to nil, not by a source
\* that ends in Found either; and after a StreamError waitForLogs goes on to
\* return that non-nil error.
C21_FailureVisible ==
    /\ []((\E s \in coreDNSPods : Failed(s)) => (e # NoErr /\ e \in FailureErrs))
    /\ [](waitReturned => initErr = e)
    /\ [][e # NoErr => e' # NoErr]_vars
    /\ \A s \in 1..MaxSources :
         []((s \in coreDNSPods /\ outcome[s] = "StreamError")
                => <>(waitReturned /\ e # NoErr))

\* C22: harvesting starts (waitForLogs has returned nil) only if every source
\* has ended in Found.
C22_SuccessMeansAllFound ==
    (waitReturned /\ initErr = NoErr) =>
        /\ phase = "harvest"
        /\ \A s \in coreDNSPods : outcome[s] = "Found"

\* C23: whatever the concurrency factor, zero and negative values included,
\* processConnectionLogs does not panic on it, and when it has returned every
\* event lies in exactly one segment and every unit has walked its segment
\* to the end.
C23_AnyConcurrency ==
    /\ concurrency = 0 => cpc # "crashed"
    /\ cpc = "returned" =>
         /\ \A k \in 0..(Len(connectionLogs) - 1) :
              Cardinality({u \in Units : segs[u].from <= k /\ k < segs[u].to}) = 1
         /\ \A u \in Units : upos[u] = segs[u].to

=============================================================================
